---- MODULE Spec2Model ----
(***************************************************************************)
(* DataCanvas (src/app.py): a Streamlit script that is re-executed from    *)
(* top to bottom after every user interaction.  The state that survives a  *)
(* run is the uploaded file, the temp_data directory, the three framework  *)
(* caches (get_db_connection, get_tables, get_table_data) and the widget   *)
(* values; everything else is recomputed by the run and rendered.          *)
(*                                                                         *)
(* A table is modelled by what the script asks pandas about it: the row    *)
(* count, and per column its name, dtype, number of nulls (isnull().sum()) *)
(* and number of distinct non-null values (nunique()); and the matrix that *)
(* df[numeric_cols].corr() returns.  Correlation coefficients are kept in  *)
(* tenths (1.0 is 10) or are NaN.                                          *)
(***************************************************************************)
EXTENDS Integers, Sequences, FiniteSets, TLC

VARIABLES uploaded, disk, conn_cache, tables_cache, data_cache,
          selected_table, column_to_visualize, view, quicksort_ties

vars == <<uploaded, disk, conn_cache, tables_cache, data_cache,
          selected_table, column_to_visualize, view, quicksort_ties>>

(***************************** bounds **************************************)
MaxRows == 60
MaxCols == 3

(************************* program constants *******************************)
BarChartLimit == 25
HighCardinalityLimit == 50
HighMissingPercent == 30
StrongCorr == 7
ModerateCorr == 5
SelfCorr == 10

(***************************** helpers *************************************)
Range(s) == {s[i] : i \in DOMAIN s}

Min(a, b) == IF a <= b THEN a ELSE b

Abs(x) == IF x < 0 THEN 0 - x ELSE x

Val(v) == [nan |-> FALSE, v |-> v]

NaN == [nan |-> TRUE, v |-> 0]

Column(name, dtype, missing, nunique) ==
  [name |-> name, dtype |-> dtype, missing |-> missing, nunique |-> nunique]

Frame(nrows, cols, corr) == [nrows |-> nrows, cols |-> cols, corr |-> corr]

\* pd.DataFrame(): what get_table_data returns when the query fails
EmptyFrame == Frame(0, <<>>, <<>>)

(********************** dtype predicates of pandas *************************)
\* dtypes: "number" (np.number: INTEGER and REAL columns), "object" (TEXT,
\* BLOB, all-NULL columns) and "category", which line 173 names as well
\* variant: a numeric column holding nulls is not taken for numeric
is_numeric_dtype_NoNulls(col) == col.dtype = "number" /\ col.missing = 0

is_numeric_dtype(col) == col.dtype = "number"

is_object_dtype(col) == col.dtype = "object"

\* df_full.select_dtypes(include=np.number).columns.tolist()
numeric_cols(df) == SelectSeq(df.cols, LAMBDA c : c.dtype = "number")

\* df_full.select_dtypes(include=['object', 'category']).columns.tolist()
categorical_cols(df) ==
  SelectSeq(df.cols, LAMBDA c : c.dtype \in {"object", "category"})

\* variant: only the columns are looked at, so a table without rows passes
Empty_ColumnsOnly(df) == df.cols = <<>>

\* df_full.empty: no rows or no columns
Empty(df) == df.nrows = 0 \/ df.cols = <<>>

(******************** tab 2: single column analysis ************************)
\* variant: the dtype test of line 144 is dropped, the count alone decides
ColumnVisualization_CountOnly(col) ==
  IF is_numeric_dtype(col) THEN "Histogram"
  ELSE IF col.nunique < BarChartLimit THEN "BarChartTopN"
  ELSE "Unsupported"

ColumnVisualization(col) ==
  IF is_numeric_dtype(col) THEN "Histogram"
  ELSE IF is_object_dtype(col) \/ col.nunique < BarChartLimit THEN "BarChartTopN"
  ELSE "Unsupported"

(******************** tab 3/4: correlation insight *************************)
\* variant: one numeric column is enough for the matrix
HasCorrMatrix_One(df) == Len(numeric_cols(df)) >= 1

\* the guard of line 159: the matrix exists only with two numeric columns
HasCorrMatrix(df) == Len(numeric_cols(df)) >= 2

\* corr_matrix.unstack(): outer level the column label, inner the row label;
\* pos is the entry's place in that order
Unstack(df) ==
  LET num == numeric_cols(df)
      k == Len(num)
  IN [p \in 1..(k * k) |->
        LET i == ((p - 1) \div k) + 1
            j == ((p - 1) % k) + 1
        IN [pos |-> p, col1 |-> num[i].name, col2 |-> num[j].name,
            value |-> df.corr[j][i]]]

\* which of two equal entries an argsort(kind="quicksort") puts first: the
\* algorithm is not stable, so the order of equal entries is the build's
Before(i, j, ties) == IF ties = "first" THEN i < j ELSE j < i

\* the entries of s by descending value
SortDescending(s, ties) ==
  SortSeq(s, LAMBDA x, y : \/ x.value.v > y.value.v
                           \/ x.value.v = y.value.v /\ Before(x.pos, y.pos, ties))

\* Series.sort_values(kind="quicksort", ascending=False): NaN entries last
sort_values(s, ties) ==
  SortDescending(SelectSeq(s, LAMBDA e : ~e.value.nan), ties)
    \o SelectSeq(s, LAMBDA e : e.value.nan)

\* sorted_pairs[sorted_pairs != 1.0]: NaN != 1.0 is True
NonSelfCorr(sorted_pairs) ==
  SelectSeq(sorted_pairs, LAMBDA e : e.value.nan \/ e.value.v # SelfCorr)

NoPair(kind) == [kind |-> kind, col1 |-> "", col2 |-> "", value |-> NaN]

CorrelationInsight(df, ties) ==
  IF ~HasCorrMatrix(df) THEN NoPair("NeedsTwoNumeric")
  ELSE LET non_self_corr == NonSelfCorr(sort_values(Unstack(df), ties))
       IN IF non_self_corr = <<>> THEN NoPair("NoSignificant")
          ELSE LET highest == non_self_corr[1]
               IN IF highest.value.nan THEN NoPair("Silent")
                  ELSE IF Abs(highest.value.v) > StrongCorr
                    THEN [kind |-> "Strong", col1 |-> highest.col1,
                          col2 |-> highest.col2, value |-> highest.value]
                  ELSE IF Abs(highest.value.v) > ModerateCorr
                    THEN [kind |-> "Moderate", col1 |-> highest.col1,
                          col2 |-> highest.col2, value |-> highest.value]
                  ELSE NoPair("Silent")

(********************* tab 4: missing data insight *************************)
\* missing_summary[missing_summary > 0]
MissingSummary(df) == SelectSeq(df.cols, LAMBDA c : c.missing > 0)

\* idxmax(): the first position holding the maximum
IdxMax(s) == CHOOSE i \in DOMAIN s :
               /\ \A j \in DOMAIN s : s[j].missing <= s[i].missing
               /\ \A j \in DOMAIN s : s[j].missing = s[i].missing => i <= j

\* variant: 30% itself counts as high
IsHighMissing_AtLeast(missing_count, total_rows) ==
  missing_count * 100 >= HighMissingPercent * total_rows

\* (missing_count / total_rows) * 100 > 30, in exact arithmetic
IsHighMissing(missing_count, total_rows) ==
  missing_count * 100 > HighMissingPercent * total_rows

MissingInsight(df) ==
  LET missing_summary == MissingSummary(df)
      total_rows == df.nrows
  IN IF missing_summary = <<>>
       THEN [kind |-> "NoMissingData", col |-> "", count |-> 0, total |-> total_rows]
     ELSE LET most == missing_summary[IdxMax(missing_summary)]
          IN [kind |-> IF IsHighMissing(most.missing, total_rows)
                         THEN "HighMissing" ELSE "SomeMissing",
              col |-> most.name, count |-> most.missing, total |-> total_rows]

(********************* tab 4: cardinality insight **************************)
\* variant: 50 distinct values already count as high
IsHighCardinality_AtLeast(col) == col.nunique >= HighCardinalityLimit

IsHighCardinality(col) == col.nunique > HighCardinalityLimit

CardinalityInsight(df) ==
  LET cats == categorical_cols(df)
      high == SelectSeq(cats, IsHighCardinality)
      listed == [i \in DOMAIN high |->
                   [col |-> high[i].name, unique_count |-> high[i].nunique]]
  IN IF cats = <<>> THEN [kind |-> "NoCategoricalColumns", cols |-> <<>>]
     ELSE IF high # <<>> THEN [kind |-> "HighCardinality", cols |-> listed]
     ELSE [kind |-> "NoHighCardinality", cols |-> <<>>]

(************************ the framework caches *****************************)
NoUpload == [present |-> FALSE, name |-> "", db |-> <<>>]

UploadedFile(name, db) == [present |-> TRUE, name |-> name, db |-> db]

\* open(temp_db_path, "wb"); f.write(uploaded_file.getbuffer())
SaveUpload(dk, up) ==
  {e \in dk : e.name # up.name} \cup {[name |-> up.name, db |-> up.db]}

\* what a connection to db_path reads: the file now at that path (the cached
\* connection of an earlier upload of the same name is on the rewritten file)
DbAt(dk, path) == (CHOOSE e \in dk : e.name = path).db

TableNames(db) == [i \in DOMAIN db |-> db[i].name]

NoTables == [cached |-> FALSE, value |-> <<>>]

\* @st.cache_data get_tables(_conn): _conn is left out of the cache key, so
\* the one entry answers every call
get_tables(tc, db) ==
  IF tc.cached THEN tc ELSE [cached |-> TRUE, value |-> TableNames(db)]

\* SELECT * FROM "table_name"; an exception returns pd.DataFrame()
ReadTable(db, table_name) ==
  IF \E i \in DOMAIN db : db[i].name = table_name
    THEN db[CHOOSE i \in DOMAIN db : db[i].name = table_name].frame
  ELSE EmptyFrame

\* variant: a cache hit hands back an empty frame
get_table_data_EmptyHit(dc, db, table_name) ==
  IF \E e \in dc : e.table_name = table_name
    THEN [cache |-> dc, df |-> EmptyFrame]
  ELSE LET df == ReadTable(db, table_name)
       IN [cache |-> dc \cup {[table_name |-> table_name, df |-> df]}, df |-> df]

\* @st.cache_data get_table_data(_conn, table_name): keyed by table_name only
get_table_data(dc, db, table_name) ==
  IF \E e \in dc : e.table_name = table_name
    THEN [cache |-> dc, df |-> (CHOOSE e \in dc : e.table_name = table_name).df]
  ELSE LET df == ReadTable(db, table_name)
       IN [cache |-> dc \cup {[table_name |-> table_name, df |-> df]}, df |-> df]

\* st.selectbox: the widget keeps its value while it is rendered again with
\* the same options, and starts from its default otherwise
selectbox(options, prev_options, value, default) ==
  IF options = prev_options /\ value \in Range(options) THEN value ELSE default

(***************************** what a run renders **************************)
NoInsights ==
  [viz |-> "None", corr |-> NoPair("None"),
   missing |-> [kind |-> "None", col |-> "", count |-> 0, total |-> 0],
   card |-> [kind |-> "None", cols |-> <<>>]]

View(table_names, table, df, analysed, all_columns, ins) ==
  [table_names |-> table_names, selected_table |-> table, df_full |-> df,
   analysed |-> analysed, all_columns |-> all_columns,
   viz |-> ins.viz, corr |-> ins.corr, missing |-> ins.missing, card |-> ins.card]

\* nothing uploaded: the welcome message
WelcomeView == View(<<>>, "", EmptyFrame, FALSE, <<>>, NoInsights)

ColumnNamed(df, name) == df.cols[CHOOSE i \in DOMAIN df.cols : df.cols[i].name = name]

\* the four tabs, lines 101-252
Analysis(df, column, ties) ==
  [viz |-> IF column = "" THEN "None"
           ELSE ColumnVisualization(ColumnNamed(df, column)),
   corr |-> CorrelationInsight(df, ties),
   missing |-> MissingInsight(df),
   card |-> CardinalityInsight(df)]

Result(dk, cc, tc, dc, selT, selC, v) ==
  [disk |-> dk, conn_cache |-> cc, tables_cache |-> tc, data_cache |-> dc,
   selected_table |-> selT, column_to_visualize |-> selC, view |-> v]

\* one execution of the script, lines 65-271
Script(up, dk, cc, tc, dc, selT, selC, prev, ties) ==
  IF ~up.present THEN Result(dk, cc, tc, dc, "", "", WelcomeView)
  ELSE
    LET dk1 == SaveUpload(dk, up)
        conn == up.name
        cc1 == cc \cup {conn}
        tc1 == get_tables(tc, DbAt(dk1, conn))
        table_names == tc1.value
    IN IF table_names = <<>>
         THEN Result(dk1, cc1, tc1, dc, "", "",
                     View(<<>>, "", EmptyFrame, FALSE, <<>>, NoInsights))
       ELSE
         LET table == selectbox(table_names, prev.table_names, selT, table_names[1])
             got == get_table_data(dc, DbAt(dk1, conn), table)
             df_full == got.df
         IN IF Empty(df_full)
              THEN Result(dk1, cc1, tc1, got.cache, table, "",
                          View(table_names, table, df_full, FALSE, <<>>, NoInsights))
            ELSE
              LET all_columns == [i \in DOMAIN df_full.cols |-> df_full.cols[i].name]
                  column == selectbox(all_columns, prev.all_columns, selC, "")
              IN Result(dk1, cc1, tc1, got.cache, table, column,
                        View(table_names, table, df_full, TRUE, all_columns,
                             Analysis(df_full, column, ties)))

\* the state after a run
Ran(up, selT, selC) ==
  \E r \in {Script(up, disk, conn_cache, tables_cache, data_cache,
                     selT, selC, view, quicksort_ties)} :
     /\ uploaded' = up
     /\ disk' = r.disk
     /\ conn_cache' = r.conn_cache
     /\ tables_cache' = r.tables_cache
     /\ data_cache' = r.data_cache
     /\ selected_table' = r.selected_table
     /\ column_to_visualize' = r.column_to_visualize
     /\ view' = r.view
     /\ UNCHANGED quicksort_ties

(************************* the tables explored *****************************)
ColNames == <<"a", "b", "c", "d", "e">>

RowSamples == {0, 1, MaxRows}

\* null counts around the 30% line: none, 30% rounded down, one more, all
MissingAt(level, n) ==
  CASE level = 0 -> 0
    [] level = 1 -> (HighMissingPercent * n) \div 100
    [] level = 2 -> Min(((HighMissingPercent * n) \div 100) + 1, n)
    [] OTHER -> n

\* a column of n rows with m nulls holds between 1 and n - m distinct values
NuniqueAt(u, n, m) == IF n - m = 0 THEN 0 ELSE Min(u, n - m)

\* <<null level, distinct values>> around the limits 25 and 50
ProfileTargets(dtype) ==
  CASE dtype = "number" -> {<<0, 51>>, <<1, 3>>}
    [] dtype = "object" -> {<<0, 25>>, <<0, 50>>, <<0, 51>>, <<2, 3>>}
    [] OTHER -> {<<0, 24>>, <<0, 25>>, <<0, 51>>}

Profiles(n) ==
  UNION {{[dtype |-> d, missing |-> MissingAt(t[1], n),
           nunique |-> NuniqueAt(t[2], n, MissingAt(t[1], n))]
          : t \in ProfileTargets(d)} : d \in {"number", "object", "category"}}

Columns(k, f) ==
  [i \in 1..k |-> Column(ColNames[i], f[i].dtype, f[i].missing, f[i].nunique)]

\* a column with at most one distinct value has no variance: corr() gives NaN
IsConstant(col) == col.nunique <= 1

\* the matrix of a table whose numeric columns are all weakly correlated
WeakCorr(cols) ==
  LET num == SelectSeq(cols, LAMBDA c : c.dtype = "number")
  IN [i \in DOMAIN num |-> [j \in DOMAIN num |->
        IF IsConstant(num[i]) \/ IsConstant(num[j]) THEN NaN
        ELSE IF i = j THEN Val(SelfCorr) ELSE Val(2)]]

ProfileDatasets ==
  UNION {UNION {{Frame(n, Columns(k, f), WeakCorr(Columns(k, f)))
                 : f \in [1..k -> Profiles(n)]}
                : n \in RowSamples} : k \in 1..MaxCols}

\* coefficients a pair of columns may have, in tenths
CorrValues == {0 - 9, 2, 7, 8, 10}

CorrKinds ==
  {[dtype |-> "number", missing |-> 0, nunique |-> 3],
   [dtype |-> "number", missing |-> 0, nunique |-> 1],
   [dtype |-> "object", missing |-> 0, nunique |-> 3]}

RECURSIVE Det(_, _)
\* determinant, by expansion along the first row, of a matrix given as a
\* sequence of rows
Det(m, n) ==
  IF n = 0 THEN 1
  ELSE LET minor(j) == [r \in 1..(n - 1) |-> [c \in 1..(n - 1) |->
                          m[r + 1][IF c < j THEN c ELSE c + 1]]]
           term(j) == (IF j % 2 = 1 THEN 1 ELSE 0 - 1) * m[1][j] * Det(minor(j), n - 1)
           sum[j \in 0..n] == IF j = 0 THEN 0 ELSE sum[j - 1] + term(j)
       IN sum[n]

RECURSIVE SortedSeq(_)
SortedSeq(S) ==
  IF S = {} THEN <<>>
  ELSE LET lo == CHOOSE x \in S : \A y \in S : x <= y
       IN <<lo>> \o SortedSeq(S \ {lo})

\* a correlation matrix is positive semi-definite: no principal minor is
\* negative
IsCorrelationMatrix(m, idx) ==
  \A S \in SUBSET idx :
    LET s == SortedSeq(S)
        sub == [r \in DOMAIN s |-> [c \in DOMAIN s |-> m[s[r]][s[c]].v]]
    IN Det(sub, Len(s)) >= 0

CorrMatrices(cols) ==
  LET num == SelectSeq(cols, LAMBDA c : c.dtype = "number")
      live == {i \in DOMAIN num : ~IsConstant(num[i])}
      pairs == {p \in live \X live : p[1] < p[2]}
      matrix(g) == [i \in DOMAIN num |-> [j \in DOMAIN num |->
                      IF i \notin live \/ j \notin live THEN NaN
                      ELSE IF i = j THEN Val(SelfCorr)
                      ELSE IF i < j THEN Val(g[<<i, j>>]) ELSE Val(g[<<j, i>>])]]
  IN {m \in {matrix(g) : g \in [pairs -> CorrValues]} : IsCorrelationMatrix(m, live)}

CorrDatasets ==
  UNION {UNION {{Frame(MaxRows, Columns(k, f), m) : m \in CorrMatrices(Columns(k, f))}
                : f \in [1..k -> CorrKinds]} : k \in 1..MaxCols}

Datasets == ProfileDatasets \cup CorrDatasets

Table(name, frame) == [name |-> name, frame |-> frame]

(* the databases of the upload scenarios *)
Sales ==
  Frame(MaxRows,
        <<Column("a", "number", 0, 25), Column("b", "number", 19, 3),
          Column("c", "object", 0, 51)>>,
        <<<<Val(SelfCorr), Val(8)>>, <<Val(8), Val(SelfCorr)>>>>)

Staff ==
  Frame(MaxRows,
        <<Column("a", "object", MaxRows \div 2, 3), Column("b", "category", 0, 25)>>,
        <<>>)

Databases ==
  {<<>>, <<Table("t", Sales)>>, <<Table("t", Staff)>>, <<Table("u", Staff)>>,
   <<Table("t", Sales), Table("u", Staff)>>}

FileNames == {"x.db", "y.db"}

(******************************* actions ***********************************)
\* a file is chosen in the uploader
Upload(name, db) ==
  /\ name \in FileNames
  /\ Ran(UploadedFile(name, db), selected_table, column_to_visualize)

\* the file is removed from the uploader
RemoveFile ==
  /\ uploaded.present
  /\ Ran(NoUpload, selected_table, column_to_visualize)

\* a table is picked in the sidebar
SelectTable(t) ==
  /\ t \in Range(view.table_names)
  /\ Ran(uploaded, t, column_to_visualize)

\* a column is picked (or the choice cleared) in the second tab
SelectColumn(c) ==
  /\ view.analysed
  /\ c \in Range(view.all_columns) \cup {""}
  /\ Ran(uploaded, selected_table, c)

\* any other interaction: the script runs again on the same inputs
Rerun == Ran(uploaded, selected_table, column_to_visualize)

Init ==
  /\ uploaded = NoUpload
  /\ disk = {}
  /\ conn_cache = {}
  /\ tables_cache = NoTables
  /\ data_cache = {}
  /\ selected_table = ""
  /\ column_to_visualize = ""
  /\ view = WelcomeView
  /\ quicksort_ties \in {"first", "last"}

Next ==
  \/ \E name \in FileNames, db \in Databases : Upload(name, db)
  \/ RemoveFile
  \/ \E t \in {"t", "u"} : SelectTable(t)
  \/ \E c \in Range(ColNames) \cup {""} : SelectColumn(c)
  \/ Rerun

Spec == Init /\ [][Next]_vars

\* one table has been uploaded into a fresh application
InitInsight ==
  \E ds \in Datasets, ties \in {"first", "last"} :
    \E r \in {Script(UploadedFile("x.db", <<Table("t", ds)>>), {}, {}, NoTables, {},
                       "", "", WelcomeView, ties)} :
       /\ uploaded = UploadedFile("x.db", <<Table("t", ds)>>)
       /\ disk = r.disk
       /\ conn_cache = r.conn_cache
       /\ tables_cache = r.tables_cache
       /\ data_cache = r.data_cache
       /\ selected_table = r.selected_table
       /\ column_to_visualize = r.column_to_visualize
       /\ view = r.view
       /\ quicksort_ties = ties

NextInsight ==
  \/ \E t \in {"t", "u"} : SelectTable(t)
  \/ \E c \in Range(ColNames) \cup {""} : SelectColumn(c)
  \/ Rerun

SpecInsight == InitInsight /\ [][NextInsight]_vars

(***************************************************************************)
(*                              properties                                 *)
(***************************************************************************)
\* the table the last run analysed, and the column picked in the second tab
Df == view.df_full

Picked == ColumnNamed(Df, column_to_visualize)

ColumnPicked == view.analysed /\ column_to_visualize # ""

NumericCount == Cardinality({i \in DOMAIN Df.cols : Df.cols[i].dtype = "number"})

(* C1, as stated: a non-numeric column gets the bar chart when it has fewer
   than 25 distinct values and the too-many-values message otherwise. *)
C1_AsStated ==
  (ColumnPicked /\ Picked.dtype # "number") =>
     /\ Picked.nunique < 25 => view.viz = "BarChartTopN"
     /\ Picked.nunique >= 25 => view.viz = "Unsupported"

(* C1, amended: a textual (object) column always gets the bar chart, however
   many distinct values it has; any other non-numeric column gets the bar
   chart below 25 distinct values and the too-many-values message from 25. *)
C1_BarChartPolicy ==
  (ColumnPicked /\ Picked.dtype # "number") =>
     IF Picked.dtype = "object" THEN view.viz = "BarChartTopN"
     ELSE /\ Picked.nunique < 25 => view.viz = "BarChartTopN"
          /\ Picked.nunique >= 25 => view.viz = "Unsupported"

C1_Witness ==
  /\ ColumnPicked
  /\ Picked.dtype = "object"
  /\ Picked.nunique > 50
  /\ view.viz = "BarChartTopN"
  /\ \E i \in DOMAIN Df.cols : Df.cols[i].dtype = "category" /\ Df.cols[i].nunique = 25

(* C3: a numeric column always gets the histogram, whatever its number of
   distinct values or nulls. *)
C3_NumericHistogram ==
  (ColumnPicked /\ Picked.dtype = "number") => view.viz = "Histogram"

C3_Witness ==
  /\ ColumnPicked
  /\ Picked.dtype = "number"
  /\ Picked.missing > 0
  /\ Picked.nunique < 25
  /\ view.viz = "Histogram"

\* the non-self entries of the correlation matrix, as sets of column names
\* with their coefficient
NonSelfEntries ==
  LET num == numeric_cols(Df)
  IN {<<i, j>> \in (DOMAIN num) \X (DOMAIN num) :
        /\ i # j
        /\ ~Df.corr[i][j].nan
        /\ Df.corr[i][j].v # 10}

StrongestAbs ==
  CHOOSE b \in {Abs(Df.corr[p[1]][p[2]].v) : p \in NonSelfEntries} :
    \A p \in NonSelfEntries : Abs(Df.corr[p[1]][p[2]].v) <= b

(* C2, as stated: with two or more numeric columns the reported pair is the
   non-self pair of maximum absolute coefficient; Strong above 0.7, Moderate
   above 0.5 up to 0.7, nothing otherwise. *)
C2_AsStated ==
  (view.analysed /\ NumericCount >= 2) =>
     IF NonSelfEntries = {} \/ StrongestAbs <= 5
       THEN view.corr.kind \notin {"Strong", "Moderate"}
     ELSE /\ view.corr.kind = (IF StrongestAbs > 7 THEN "Strong" ELSE "Moderate")
          /\ Abs(view.corr.value.v) = StrongestAbs
          /\ view.corr.col1 # view.corr.col2

(* C4: NoMissingData exactly when no column has a null; otherwise the first
   column, in declared order, holding the maximum null count is named, with
   that count over the row count, HighMissing above 30% and SomeMissing up
   to and including 30%. *)
C4_MissingInsight ==
  view.analysed =>
    LET cols == Df.cols
        m == view.missing
    IN /\ (m.kind = "NoMissingData") <=> (\A i \in DOMAIN cols : cols[i].missing = 0)
       /\ (\E i \in DOMAIN cols : cols[i].missing > 0) =>
            /\ \E i \in DOMAIN cols :
                 /\ m.col = cols[i].name
                 /\ m.count = cols[i].missing
                 /\ \A j \in DOMAIN cols : cols[j].missing <= cols[i].missing
                 /\ \A j \in 1..(i - 1) : cols[j].missing < cols[i].missing
            /\ m.total = Df.nrows
            /\ m.kind = (IF m.count * 100 > 30 * m.total
                           THEN "HighMissing" ELSE "SomeMissing")

C4_Witness ==
  /\ view.analysed
  /\ view.missing.kind = "SomeMissing"
  /\ view.missing.count * 100 = 30 * view.missing.total
  /\ view.missing.col = "b"
  /\ Len(Df.cols) >= 3
  /\ Df.cols[1].missing = 0
  /\ Df.cols[3].missing = Df.cols[2].missing

\* position of a column name in the table
ColIndex(name) == CHOOSE i \in DOMAIN Df.cols : Df.cols[i].name = name

(* C5: the cardinality insight lists exactly the object/category columns with
   more than 50 distinct values, each with its count, in declared order, and
   is HighCardinality exactly when that list is not empty. *)
C5_CardinalityInsight ==
  view.analysed =>
    LET listed == view.card.cols
    IN /\ \A i \in DOMAIN Df.cols :
            (\E k \in DOMAIN listed : listed[k].col = Df.cols[i].name)
              <=> (Df.cols[i].dtype \in {"object", "category"} /\ Df.cols[i].nunique > 50)
       /\ \A k \in DOMAIN listed :
            listed[k].unique_count = Df.cols[ColIndex(listed[k].col)].nunique
       /\ \A k \in DOMAIN listed : \A l \in DOMAIN listed :
            k < l => ColIndex(listed[k].col) < ColIndex(listed[l].col)
       /\ (view.card.kind = "HighCardinality") <=> (Len(listed) > 0)
       /\ view.card.kind \in {"HighCardinality", "NoHighCardinality", "NoCategoricalColumns"}

C5_Witness ==
  /\ view.analysed
  /\ view.card.kind = "HighCardinality"
  /\ Len(view.card.cols) = 2
  /\ \E i \in DOMAIN Df.cols : Df.cols[i].dtype = "object" /\ Df.cols[i].nunique = 50

(* C6: with fewer than two numeric columns the correlation insight is the
   requires-two-numerical-columns outcome, never Strong or Moderate. *)
C6_NeedsTwoNumeric ==
  (view.analysed /\ NumericCount < 2) => view.corr.kind = "NeedsTwoNumeric"

C6_Witness ==
  /\ view.analysed
  /\ NumericCount = 1
  /\ Len(Df.cols) >= 2
  /\ view.corr.kind = "NeedsTwoNumeric"

(* C7: running the script again on the same upload and the same widget
   values renders the same results and leaves the stored file and the cached
   tables as they were. *)
C7_RerunIdempotent ==
  [][(/\ uploaded' = uploaded
      /\ selected_table' = selected_table
      /\ column_to_visualize' = column_to_visualize)
     => (view' = view /\ disk' = disk /\ data_cache' = data_cache
         /\ tables_cache' = tables_cache)]_vars

C7_Witness ==
  /\ ColumnPicked
  /\ view.corr.kind = "Strong"
  /\ view.missing.kind = "HighMissing"
  /\ view.card.kind = "HighCardinality"
  /\ quicksort_ties = "last"

(* C8, as stated: among the matrix entries that share the reported value,
   the reported pair is the first in unstack order. *)
C8_AsStated ==
  (view.analysed /\ view.corr.kind \in {"Strong", "Moderate"}) =>
    LET u == Unstack(Df)
        same == {p \in DOMAIN u : ~u[p].value.nan /\ u[p].value.v = view.corr.value.v}
        first == CHOOSE p \in same : \A q \in same : p <= q
    IN view.corr.col1 = u[first].col1 /\ view.corr.col2 = u[first].col2

\* a table with columns and no rows is the one selected
ZeroRowTable == view.selected_table # "" /\ Df.cols # <<>> /\ Df.nrows = 0

(* C9, as stated: a table with zero rows yields the three insight sections
   in their degraded variants. *)
C9_AsStated ==
  ZeroRowTable =>
    /\ view.corr.kind = "NeedsTwoNumeric"
    /\ view.missing.kind \in {"NoMissingData", "SomeMissing"}
    /\ view.card.kind \in {"NoHighCardinality", "NoCategoricalColumns"}

(* C9, amended: a table with zero rows is not analysed at all (no preview,
   no tab, no insight section) and nothing fails; an analysed table has at
   least one row, so the missing percentage never divides by zero; and an
   analysed table without categorical columns, or without numeric columns,
   gets the corresponding no-columns outcome. *)
C9_ZeroRowsSkipped ==
  /\ ZeroRowTable =>
       /\ ~view.analysed
       /\ view.corr.kind = "None"
       /\ view.missing.kind = "None"
       /\ view.card.kind = "None"
  /\ view.analysed =>
       /\ Df.nrows >= 1
       /\ view.missing.total >= 1
       /\ (\A i \in DOMAIN Df.cols : Df.cols[i].dtype = "number")
            => view.card.kind = "NoCategoricalColumns"
       /\ NumericCount = 0 => view.corr.kind = "NeedsTwoNumeric"

C9_Witness ==
  /\ ZeroRowTable
  /\ Len(Df.cols) >= 2
  /\ ~view.analysed

(* C10, as stated: the table list shown and the table data analysed are
   those of the database file now uploaded. *)
C10_AsStated ==
  uploaded.present =>
    /\ view.table_names = TableNames(uploaded.db)
    /\ view.selected_table # "" =>
         view.df_full = ReadTable(uploaded.db, view.selected_table)

====
